---- MODULE Spec2Model ----
(***************************************************************************)
(* Model of package mq (src/mq/options.go): the functional options of the   *)
(* connection record Options and of the per-subscription record            *)
(* SubscribeOptions, and the built-in strategies.                           *)
(*                                                                         *)
(* Go values are modelled as follows.  A nil pointer or nil interface is    *)
(* the string "nil"; a non-nil Codecer, Handler, *tls.Config or Logger is   *)
(* an opaque string.  A context.Context is a record [nil, kv]: nil says     *)
(* whether it is the nil interface, kv is the chain of key/value pairs      *)
(* that context.WithValue has wrapped around context.Background(), the      *)
(* innermost pair first.  A Strategy is a record [type, s].                 *)
(***************************************************************************)
EXTENDS Integers, Sequences, FiniteSets, TLC

VARIABLES o, applied, panicked, pc, opts, i, opt, ret

connVars == <<o, applied, panicked>>
subVars == <<pc, opts, i, opt, ret>>
vars == <<o, applied, panicked, pc, opts, i, opt, ret>>

\* Longest sequence of connection configurators applied to one Options record.
MaxOpts == 3

\* Longest argument list handed to NewSubscribeOptions.
MaxSubOpts == 3

Nil == "nil"

(***************************************************************************)
(* Strategies                                                              *)
(***************************************************************************)
StrategyKindRetry == "retry"

\* Faulty variant: the constant misspelt so that it collides with retry.
StrategyKindDoOnceCollides == "retry"

StrategyKindDoOnce == "do_once"

StrategyKindSendBack == "send_back"

\* type strategyImpl string: the conversion strategyImpl(s)
strategyImpl(s) == [type |-> "strategyImpl", s |-> s]

StrategyRetry == strategyImpl(StrategyKindRetry)

StrategyDoOnce == strategyImpl(StrategyKindDoOnce)

StrategySendBack == strategyImpl(StrategyKindSendBack)

\* The nil Strategy interface value.
NilStrategy == [type |-> Nil, s |-> ""]

\* A Strategy implemented outside the package; id is what its method returns.
CustomStrategy(id) == [type |-> "custom", s |-> id]

\* The method Strategy() string, dispatched on the dynamic type.
Strategy(impl) ==
    CASE impl.type = "strategyImpl" -> impl.s
      [] impl.type = "custom" -> impl.s

(***************************************************************************)
(* context.Context                                                         *)
(***************************************************************************)
NilCtx == [nil |-> TRUE, kv |-> <<>>]

\* context.Background()
Background == [nil |-> FALSE, kv |-> <<>>]

\* A nil key makes context.WithValue panic.
NilKey == Nil

\* context.WithValue(parent, k, v) for a non-nil parent and a non-nil key.
WithValue(parent, k, v) == [nil |-> FALSE, kv |-> Append(parent.kv, <<k, v>>)]

RECURSIVE ChainValue(_, _, _)
ChainValue(kv, n, k) ==
    IF n = 0 THEN Nil
    ELSE IF kv[n][1] = k THEN kv[n][2]
    ELSE ChainValue(kv, n - 1, k)

\* c.Value(k): the outermost pair with key k decides; nil when there is none.
Value(c, k) == ChainValue(c.kv, Len(c.kv), k)

(***************************************************************************)
(* Options and its configurators                                           *)
(***************************************************************************)
\* The zero value Options{}.
ZeroOptions ==
    [Addresses |-> <<>>, Version |-> "V0", Secure |-> FALSE, Codec |-> Nil,
     Username |-> "", Password |-> "", Algorithm |-> "",
     ErrorHandler |-> Nil, TLSConfig |-> Nil, Context |-> NilCtx,
     Log |-> Nil, Otel |-> FALSE]

\* Faulty variant: adds to the address list instead of replacing it.
AddressesAppend(addrs, r) == [r EXCEPT !.Addresses = @ \o addrs]

Addresses(addrs, r) == [r EXCEPT !.Addresses = addrs]

\* Faulty variant: an empty argument keeps the field's earlier value.
SaslKeepOnEmpty(user, pass, algorithm, r) ==
    [r EXCEPT !.Username = IF user = "" THEN @ ELSE user,
              !.Password = IF pass = "" THEN @ ELSE pass,
              !.Algorithm = IF algorithm = "" THEN @ ELSE algorithm]

Sasl(user, pass, algorithm, r) ==
    [r EXCEPT !.Username = user, !.Password = pass, !.Algorithm = algorithm]

Version(version, r) == [r EXCEPT !.Version = version]

Secure(b, r) == [r EXCEPT !.Secure = b]

Codec(c, r) == [r EXCEPT !.Codec = c]

ErrorHandler(h, r) == [r EXCEPT !.ErrorHandler = h]

\* Faulty variant: TLS material switches secure transport on.
SetTLSConfigEnables(t, r) == [r EXCEPT !.TLSConfig = t, !.Secure = (t # Nil)]

SetTLSConfig(t, r) == [r EXCEPT !.TLSConfig = t]

Context(c, r) == [r EXCEPT !.Context = c]

\* The first statement of ContextWithValue's closure.
EnsureContext(r) ==
    IF r.Context.nil THEN [r EXCEPT !.Context = Background] ELSE r

\* Faulty variant: always starts from an empty base context.
ContextWithValueReplace(k, v, r) ==
    [r EXCEPT !.Context = WithValue(Background, k, v)]

ContextWithValue(k, v, r) ==
    [EnsureContext(r) EXCEPT !.Context = WithValue(EnsureContext(r).Context, k, v)]

\* Faulty variant: the nil check is missing.
LogUnguarded(log, r) == [r EXCEPT !.Log = log]

Log(log, r) == IF log # Nil THEN [r EXCEPT !.Log = log] ELSE r

Otel(b, r) == [r EXCEPT !.Otel = b]

\* Arguments the configurators are called with.
AddressArgs == {<<>>, <<"a1:9092">>, <<"a2:9092", "a1:9092">>}

SaslArgs == {<<"", "", "">>, <<"user", "pw", "PLAIN">>, <<"user", "", "">>,
             <<"bob", "pw", "">>}

VersionArgs == {"V0", "V2_1_0_0"}

CodecArgs == {Nil, "codec1"}

HandlerArgs == {Nil, "handler1"}

TLSArgs == {Nil, "tls1"}

Keys == {"k1", "k2"}

Vals == {"v1", "v2"}

ContextArgs == {NilCtx, Background, WithValue(Background, "k1", "v0")}

LogArgs == {Nil, "log1", "log2"}

\* A configurator that returned normally is recorded with its arguments.
Applied(op, args) ==
    /\ ~panicked
    /\ Len(applied) < MaxOpts
    /\ applied' = Append(applied, [op |-> op, args |-> args])
    /\ panicked' = FALSE
    /\ UNCHANGED subVars

ApplyAddresses ==
    \E addrs \in AddressArgs :
        /\ Applied("Addresses", <<addrs>>)
        /\ o' = Addresses(addrs, o)

ApplySasl ==
    \E a \in SaslArgs :
        /\ Applied("Sasl", a)
        /\ o' = Sasl(a[1], a[2], a[3], o)

ApplyVersion ==
    \E version \in VersionArgs :
        /\ Applied("Version", <<version>>)
        /\ o' = Version(version, o)

ApplySecure ==
    \E b \in BOOLEAN :
        /\ Applied("Secure", <<b>>)
        /\ o' = Secure(b, o)

ApplyCodec ==
    \E c \in CodecArgs :
        /\ Applied("Codec", <<c>>)
        /\ o' = Codec(c, o)

ApplyErrorHandler ==
    \E h \in HandlerArgs :
        /\ Applied("ErrorHandler", <<h>>)
        /\ o' = ErrorHandler(h, o)

ApplySetTLSConfig ==
    \E t \in TLSArgs :
        /\ Applied("SetTLSConfig", <<t>>)
        /\ o' = SetTLSConfig(t, o)

ApplyContext ==
    \E c \in ContextArgs :
        /\ Applied("Context", <<c>>)
        /\ o' = Context(c, o)

ApplyContextWithValue ==
    \E k \in Keys, v \in Vals :
        /\ Applied("ContextWithValue", <<k, v>>)
        /\ o' = ContextWithValue(k, v, o)

\* With a nil key context.WithValue panics, after the closure has installed
\* the base context; the closure does not return.
PanicContextWithValue ==
    \E k \in {NilKey}, v \in Vals :
        /\ ~panicked
        /\ Len(applied) < MaxOpts
        /\ o' = EnsureContext(o)
        /\ panicked' = TRUE
        /\ UNCHANGED <<applied, subVars>>

ApplyLog ==
    \E log \in LogArgs :
        /\ Applied("Log", <<log>>)
        /\ o' = Log(log, o)

ApplyOtel ==
    \E b \in BOOLEAN :
        /\ Applied("Otel", <<b>>)
        /\ o' = Otel(b, o)

ConnNext ==
    \/ ApplyAddresses
    \/ ApplySasl
    \/ ApplyVersion
    \/ ApplySecure
    \/ ApplyCodec
    \/ ApplyErrorHandler
    \/ ApplySetTLSConfig
    \/ ApplyContext
    \/ ApplyContextWithValue
    \/ PanicContextWithValue
    \/ ApplyLog
    \/ ApplyOtel

(***************************************************************************)
(* SubscribeOptions, its configurators and NewSubscribeOptions             *)
(***************************************************************************)
\* The zero value SubscribeOptions{}.
ZeroSubscribeOptions ==
    [AutoAck |-> FALSE, Queue |-> "", RetryNum |-> 0, Strategy |-> NilStrategy,
     Context |-> NilCtx]

\* Faulty variant: the loop starts from the zero value.
DefaultsForgotten == ZeroSubscribeOptions

\* The composite literal SubscribeOptions{AutoAck: true}.
DefaultSubscribeOptions == [ZeroSubscribeOptions EXCEPT !.AutoAck = TRUE]

\* Faulty variant: rebuilds the record instead of updating one field.
DisableAutoAckRebuild(r) == ZeroSubscribeOptions

DisableAutoAck(r) == [r EXCEPT !.AutoAck = FALSE]

Queue(name, r) == [r EXCEPT !.Queue = name]

SubscribeContext(ctx, r) == [r EXCEPT !.Context = ctx]

\* Faulty variant: a negative count is stored as 0.
SubscribeRetryNumClamped(v, r) ==
    [r EXCEPT !.RetryNum = IF v < 0 THEN 0 ELSE v]

SubscribeRetryNum(v, r) == [r EXCEPT !.RetryNum = v]

\* Faulty variant: a nil strategy is ignored, as Log ignores a nil logger.
SubscribeStrategyGuarded(v, r) ==
    IF v # NilStrategy THEN [r EXCEPT !.Strategy = v] ELSE r

SubscribeStrategy(v, r) == [r EXCEPT !.Strategy = v]

QueueArgs == {"", "orders", "billing"}

RetryArgs == {-1, 0, 3}

StrategyArgs == {NilStrategy, StrategyRetry, StrategyDoOnce, StrategySendBack,
                 CustomStrategy("custom"), CustomStrategy("")}

SubContextArgs == {NilCtx, Background}

\* The SubscribeOption values a caller can build, each with its arguments.
SubscribeOptionValues ==
    {[op |-> "DisableAutoAck", args |-> <<>>]}
    \cup {[op |-> "Queue", args |-> <<name>>] : name \in QueueArgs}
    \cup {[op |-> "SubscribeContext", args |-> <<ctx>>] : ctx \in SubContextArgs}
    \cup {[op |-> "SubscribeRetryNum", args |-> <<v>>] : v \in RetryArgs}
    \cup {[op |-> "SubscribeStrategy", args |-> <<v>>] : v \in StrategyArgs}

RECURSIVE SeqsUpTo(_, _)
SeqsUpTo(S, n) ==
    IF n = 0 THEN {<<>>}
    ELSE LET shorter == SeqsUpTo(S, n - 1)
         IN  shorter \cup {Append(q, x) : q \in shorter, x \in S}

\* Entry of NewSubscribeOptions(opts...): the record starts from its defaults.
NewSubscribeOptions ==
    /\ pc = "idle"
    /\ \E args \in SeqsUpTo(SubscribeOptionValues, MaxSubOpts) : opts' = args
    /\ opt' = DefaultSubscribeOptions
    /\ i' = 1
    /\ pc' = "loop"
    /\ UNCHANGED <<ret, connVars>>

\* One iteration of the range loop: the i-th configurator is op.
LoopBody(op) ==
    /\ pc = "loop"
    /\ i <= Len(opts)
    /\ opts[i].op = op
    /\ i' = i + 1
    /\ UNCHANGED <<pc, opts, ret, connVars>>

CallDisableAutoAck ==
    /\ LoopBody("DisableAutoAck")
    /\ opt' = DisableAutoAck(opt)

CallQueue ==
    /\ LoopBody("Queue")
    /\ opt' = Queue(opts[i].args[1], opt)

CallSubscribeContext ==
    /\ LoopBody("SubscribeContext")
    /\ opt' = SubscribeContext(opts[i].args[1], opt)

CallSubscribeRetryNum ==
    /\ LoopBody("SubscribeRetryNum")
    /\ opt' = SubscribeRetryNum(opts[i].args[1], opt)

CallSubscribeStrategy ==
    /\ LoopBody("SubscribeStrategy")
    /\ opt' = SubscribeStrategy(opts[i].args[1], opt)

\* return opt
ReturnSubscribeOptions ==
    /\ pc = "loop"
    /\ i > Len(opts)
    /\ ret' = opt
    /\ pc' = "done"
    /\ UNCHANGED <<opts, i, opt, connVars>>

SubNext ==
    \/ NewSubscribeOptions
    \/ CallDisableAutoAck
    \/ CallQueue
    \/ CallSubscribeContext
    \/ CallSubscribeRetryNum
    \/ CallSubscribeStrategy
    \/ ReturnSubscribeOptions

Init ==
    /\ o = ZeroOptions
    /\ applied = <<>>
    /\ panicked = FALSE
    /\ pc = "idle"
    /\ opts = <<>>
    /\ i = 0
    /\ opt = ZeroSubscribeOptions
    /\ ret = ZeroSubscribeOptions

\* Building an Options record.
ConnSpec == Init /\ [][ConnNext]_vars

\* One call of NewSubscribeOptions.
SubSpec == Init /\ [][SubNext]_vars

(***************************************************************************)
(* Properties of NewSubscribeOptions (checked under SubSpec)               *)
(***************************************************************************)
\* The positions of seq that hold a configurator named op.
Positions(seq, op) == {n \in 1..Len(seq) : seq[n].op = op}

Max(S) == CHOOSE n \in S : \A m \in S : m <= n

\* The first argument of the last configurator named op in seq, or default
\* when seq holds none.
LastArg(seq, op, default) ==
    IF Positions(seq, op) = {} THEN default
    ELSE seq[Max(Positions(seq, op))].args[1]

Returned == pc = "done"

\* C2: every field of the value NewSubscribeOptions returns is the argument of
\* the last configurator in opts that sets it, or its default when none does
\* (AutoAck true, Queue "", RetryNum 0, Strategy nil, Context nil); the empty
\* list gives the defaults and [Queue("orders"), SubscribeRetryNum(3),
\* SubscribeStrategy(StrategyRetry)] gives {true, "orders", 3, "retry"}.
C2_LastConfiguratorOrDefault ==
    Returned =>
        /\ ret.AutoAck = (Positions(opts, "DisableAutoAck") = {})
        /\ ret.Queue = LastArg(opts, "Queue", "")
        /\ ret.RetryNum = LastArg(opts, "SubscribeRetryNum", 0)
        /\ ret.Strategy = LastArg(opts, "SubscribeStrategy", NilStrategy)
        /\ ret.Context = LastArg(opts, "SubscribeContext", NilCtx)
        /\ (opts = <<>> =>
               /\ ret.AutoAck = TRUE
               /\ ret.Queue = ""
               /\ ret.RetryNum = 0
               /\ ret.Strategy = NilStrategy)
        /\ (/\ Len(opts) = 3
            /\ opts[1].op = "Queue" /\ opts[1].args[1] = "orders"
            /\ opts[2].op = "SubscribeRetryNum" /\ opts[2].args[1] = 3
            /\ opts[3].op = "SubscribeStrategy" /\ opts[3].args[1] = StrategyRetry
            => /\ ret.AutoAck = TRUE
               /\ ret.Queue = "orders"
               /\ ret.RetryNum = 3
               /\ Strategy(ret.Strategy) = "retry")

\* The scenario of C2 has returned.
C2_Witness ==
    /\ Returned
    /\ Len(opts) = 3
    /\ opts[1].op = "Queue" /\ opts[1].args[1] = "orders"
    /\ opts[2].op = "SubscribeRetryNum" /\ opts[2].args[1] = 3
    /\ opts[3].op = "SubscribeStrategy" /\ opts[3].args[1] = StrategyRetry
    /\ ret.Queue = "orders"

\* The loop is about to call the configurator named op.
AboutToCall(op) == pc = "loop" /\ i <= Len(opts) /\ opts[i].op = op

\* C3: the call of DisableAutoAck's closure sets AutoAck to false and leaves
\* Queue, RetryNum, Strategy and Context as they were; and
\* NewSubscribeOptions(DisableAutoAck()) returns AutoAck false with every other
\* field at its default.
C3_DisableAutoAckFrame ==
    /\ [][AboutToCall("DisableAutoAck") =>
            /\ opt'.AutoAck = FALSE
            /\ opt'.Queue = opt.Queue
            /\ opt'.RetryNum = opt.RetryNum
            /\ opt'.Strategy = opt.Strategy
            /\ opt'.Context = opt.Context]_vars
    /\ [](Returned /\ Len(opts) = 1 /\ opts[1].op = "DisableAutoAck" =>
            ret = [AutoAck |-> FALSE, Queue |-> "", RetryNum |-> 0,
                   Strategy |-> NilStrategy, Context |-> NilCtx])

\* DisableAutoAck has just run on a record whose other fields are all set.
C3_Witness ==
    /\ pc = "loop"
    /\ i = 4
    /\ opts[3].op = "DisableAutoAck"
    /\ opt.AutoAck = FALSE
    /\ opt.Queue = "orders"
    /\ opt.RetryNum = 3

\* C7 as stated: every returned value has RetryNum >= 0.
C7_RetryNumNonNegative == Returned => ret.RetryNum >= 0

\* C7 amended: the returned RetryNum is the argument of the last
\* SubscribeRetryNum in opts (0 when there is none), stored as given; so it
\* is negative exactly when that argument is.
C7_RetryNumIsLastArgument ==
    Returned =>
        /\ ret.RetryNum = LastArg(opts, "SubscribeRetryNum", 0)
        /\ (ret.RetryNum < 0 <=>
               /\ Positions(opts, "SubscribeRetryNum") # {}
               /\ opts[Max(Positions(opts, "SubscribeRetryNum"))].args[1] < 0)

\* A negative argument has been returned as the retry count.
C7_Witness ==
    /\ Returned
    /\ Positions(opts, "SubscribeRetryNum") # {}
    /\ ret.RetryNum = -1

\* C9 as stated: the returned Strategy is nil or has a non-empty identity.
C9_StrategyIdentityNonEmpty ==
    Returned => (ret.Strategy = NilStrategy \/ Strategy(ret.Strategy) # "")

\* C9 amended: the returned Strategy is the argument of the last
\* SubscribeStrategy in opts (nil when there is none), stored as given; its
\* identity is empty only when that argument is a custom Strategy whose method
\* returns "".
C9_StrategyIsLastArgument ==
    Returned =>
        /\ ret.Strategy = LastArg(opts, "SubscribeStrategy", NilStrategy)
        /\ (ret.Strategy # NilStrategy /\ Strategy(ret.Strategy) = "" =>
               /\ Positions(opts, "SubscribeStrategy") # {}
               /\ ret.Strategy.type = "custom")

\* A custom strategy with an empty identity has been returned.
C9_Witness ==
    /\ Returned
    /\ ret.Strategy # NilStrategy
    /\ Strategy(ret.Strategy) = ""

\* C10: StrategyRetry, StrategyDoOnce and StrategySendBack report "retry",
\* "do_once" and "send_back", and the three strings are pairwise distinct.
C10_BuiltinIdentities ==
    /\ Strategy(StrategyRetry) = "retry"
    /\ Strategy(StrategyDoOnce) = "do_once"
    /\ Strategy(StrategySendBack) = "send_back"
    /\ Cardinality({Strategy(StrategyRetry), Strategy(StrategyDoOnce),
                    Strategy(StrategySendBack)}) = 3
    /\ (Returned /\ ret.Strategy.type = "strategyImpl" =>
           Strategy(ret.Strategy) \in {"retry", "do_once", "send_back"})

\* A subscription has been given the built-in strategy send_back.
C10_Witness ==
    /\ Returned
    /\ ret.Strategy = StrategySendBack
    /\ Strategy(ret.Strategy) = "send_back"

(***************************************************************************)
(* Properties of the Options configurators (checked under ConnSpec)        *)
(***************************************************************************)
\* The configurator that has just returned, when this step appended one.
JustApplied(op) ==
    /\ Len(applied') = Len(applied) + 1
    /\ applied'[Len(applied')].op = op

LastApplied == applied[Len(applied)]

\* All arguments of the last configurator named op in seq, or default.
LastArgs(seq, op, default) ==
    IF Positions(seq, op) = {} THEN default
    ELSE seq[Max(Positions(seq, op))].args

\* The field an Options configurator assigns.
FieldOf(op) ==
    CASE op = "Sasl" -> "Credentials"
      [] op = "SetTLSConfig" -> "TLSConfig"
      [] op = "ContextWithValue" -> "Context"
      [] OTHER -> op

\* The closure a configurator call returned, applied to record r.
Call(c, r) ==
    CASE c.op = "Addresses" -> Addresses(c.args[1], r)
      [] c.op = "Sasl" -> Sasl(c.args[1], c.args[2], c.args[3], r)
      [] c.op = "Version" -> Version(c.args[1], r)
      [] c.op = "Secure" -> Secure(c.args[1], r)
      [] c.op = "Codec" -> Codec(c.args[1], r)
      [] c.op = "ErrorHandler" -> ErrorHandler(c.args[1], r)
      [] c.op = "SetTLSConfig" -> SetTLSConfig(c.args[1], r)
      [] c.op = "Context" -> Context(c.args[1], r)
      [] c.op = "ContextWithValue" -> ContextWithValue(c.args[1], c.args[2], r)
      [] c.op = "Log" -> Log(c.args[1], r)
      [] c.op = "Otel" -> Otel(c.args[1], r)

\* The positions of seq whose configurator assigns field f.
Writers(seq, f) == {n \in 1..Len(seq) : FieldOf(seq[n].op) = f}

\* What the last configurator of field f in seq makes of the zero record:
\* the record a field has when only its last writer counts.
LastWriterAlone(seq, f) ==
    IF Writers(seq, f) = {} THEN ZeroOptions
    ELSE Call(seq[Max(Writers(seq, f))], ZeroOptions)

\* Two contexts that cannot be told apart: both nil or both non-nil, and the
\* same value for every key.
SameContext(a, b) ==
    /\ a.nil = b.nil
    /\ \A k \in Keys : Value(a, k) = Value(b, k)

NonNilLogs(seq) ==
    SelectSeq(seq, LAMBDA c : c.op = "Log" /\ c.args[1] # Nil)

\* The Context and ContextWithValue configurators of seq, in order.
ContextCalls(seq) ==
    SelectSeq(seq, LAMBDA c : c.op \in {"Context", "ContextWithValue"})

\* The context that the context configurators of seq leave: the argument of
\* the last Context (nil when there is none), wrapped in the pairs of the
\* ContextWithValue calls after it, over an empty base context when it is nil.
MergedContext(seq) ==
    LET calls == ContextCalls(seq)
        last == IF Positions(calls, "Context") = {} THEN 0
                ELSE Max(Positions(calls, "Context"))
        base == IF last = 0 THEN NilCtx ELSE calls[last].args[1]
        pairs == [n \in 1..(Len(calls) - last) |-> calls[last + n].args]
    IN  IF pairs = <<>> THEN base
        ELSE [nil |-> FALSE, kv |-> base.kv \o pairs]

RECURSIVE Result(_, _)
\* The record left by calling the configurators of seq in order on r.
Result(seq, r) ==
    IF seq = <<>> THEN r ELSE Result(Tail(seq), Call(Head(seq), r))

\* seq with the configurators at positions n and n + 1 exchanged.
Exchanged(seq, n) ==
    [m \in 1..Len(seq) |->
        IF m = n THEN seq[n + 1] ELSE IF m = n + 1 THEN seq[n] ELSE seq[m]]

C4_NilLogIsNoOp ==
    /\ [][JustApplied("Log") /\ applied'[Len(applied')].args[1] = Nil
            => o' = o]_vars
    /\ [][o.Log # Nil => o'.Log # Nil]_vars

\* Log(nil) has just been applied to a record that holds a logger.
C4_Witness ==
    /\ Len(applied) >= 2
    /\ LastApplied.op = "Log"
    /\ LastApplied.args[1] = Nil
    /\ o.Log = "log1"

C6_SecureAndTLSIndependent ==
    /\ o.Secure = LastArg(applied, "Secure", FALSE)
    /\ o.TLSConfig = LastArg(applied, "SetTLSConfig", Nil)

\* TLS material has been set after secure transport was switched off.
C6_Witness ==
    /\ Len(applied) = 2
    /\ applied[1].op = "Secure" /\ applied[1].args[1] = FALSE
    /\ applied[2].op = "SetTLSConfig" /\ applied[2].args[1] = "tls1"
    /\ o.TLSConfig = "tls1"
    /\ o.Secure = FALSE

\* C8 as stated: Username, Password and Algorithm are all empty or all
\* non-empty.
C8_SaslAllOrNothing ==
    \/ (o.Username = "" /\ o.Password = "" /\ o.Algorithm = "")
    \/ (o.Username # "" /\ o.Password # "" /\ o.Algorithm # "")

\* C8 amended: Username, Password and Algorithm are the three arguments of
\* the last Sasl configurator, stored as given (all empty when there is
\* none); they are all empty or all non-empty exactly when those arguments
\* are.
C8_SaslIsLastArguments ==
    <<o.Username, o.Password, o.Algorithm>>
        = LastArgs(applied, "Sasl", <<"", "", "">>)

\* A Sasl configurator with a user but no password has been applied.
C8_Witness ==
    /\ Positions(applied, "Sasl") # {}
    /\ o.Username = "user"
    /\ o.Password = ""
    /\ o.Algorithm = ""

====
